---- MODULE Spec2Model ----
(***************************************************************************)
(* Model of pyokta_aws/settings.py: the Settings value object, the         *)
(* registration of its command-line options, and Settings.from_argparse.   *)
(*                                                                         *)
(* A Python value is a record [tag, s]: tag is the value's type and s is   *)
(* what str() gives for it.  A dict / namespace / keyword-argument set is  *)
(* a function from key strings to Python values.                           *)
(***************************************************************************)
EXTENDS Naturals, Sequences, FiniteSets, TLC

VARIABLES pc, environ, argv, args, interned, out, inst, err, npos, kw, calls

vars == <<pc, environ, argv, args, interned, out, inst, err, npos, kw, calls>>

----------------------------------------------------------------------------
(* Bounds of the model *)

\* at most this many valued options on the command line
MaxCliFlags == 2
\* at most this many of the bound environment variables set
MaxEnvVars == 2
\* at most this many positional arguments (beyond self) in a direct call
MaxPositional == 2
\* at most this many keyword arguments in a direct call
MaxKwargs == 2
\* at most this many from_argparse calls on the same parsed arguments
MaxCalls == 2

----------------------------------------------------------------------------
(* Python values *)

Str(s) == [tag |-> "str", s |-> s]
Int(s) == [tag |-> "int", s |-> s]
PyNone == [tag |-> "NoneType", s |-> "None"]
PyTrue == [tag |-> "bool", s |-> "True"]
PyFalse == [tag |-> "bool", s |-> "False"]

\* bool(v)
Truthy(v) ==
    CASE v.tag = "bool" -> v.s = "True"
      [] v.tag = "NoneType" -> FALSE
      [] v.tag = "int" -> v.s # "0"
      [] OTHER -> v.s # ""

\* not v
PyNot(v) == IF Truthy(v) THEN PyFalse ELSE PyTrue

\* str(v): the text of the value, its type dropped
PyStr(v) == v.s

EmptyMap == [k \in {} |-> PyNone]

\* no Settings object came out of the last call
NoInstance == EmptyMap

\* values a user types on the command line / exports in the environment /
\* passes as keyword arguments
CliValues == {Str("from-cli")}
EnvValues == {Str("from-env")}
KwValues == {Str("kw"), PyFalse}

----------------------------------------------------------------------------
(* Settings.register_argparse_arguments: one record per add_argument call, *)
(* in registration order.  dest is what argparse derives from the long     *)
(* flag; env is "" where no environment variable is bound.                 *)

\* faulty variant: --password registered as a store_true switch
ArgumentsPasswordSwitch ==
    << [dest |-> "profile", action |-> "EnvironmentDefault",
        env |-> "OKTA_AWS_PROFILE", default |-> PyNone],
       [dest |-> "okta_org", action |-> "EnvironmentDefault",
        env |-> "OKTA_ORG", default |-> PyNone],
       [dest |-> "okta_aws_app_url", action |-> "EnvironmentDefault",
        env |-> "OKTA_AWS_APP_URL", default |-> PyNone],
       [dest |-> "aws_role_to_assume", action |-> "EnvironmentDefault",
        env |-> "OKTA_AWS_ROLE_TO_ASSUME", default |-> PyNone],
       [dest |-> "username", action |-> "EnvironmentDefault",
        env |-> "OKTA_USERNAME", default |-> PyNone],
       [dest |-> "password", action |-> "store_true",
        env |-> "OKTA_PASSWORD", default |-> PyNone],
       [dest |-> "sts_duration", action |-> "EnvironmentDefault",
        env |-> "OKTA_STS_DURATION", default |-> Int("3600")],
       [dest |-> "config_file", action |-> "EnvironmentDefault",
        env |-> "PYOKTA_AWS_CONFIG", default |-> Str("~/.pyokta_aws/config")],
       [dest |-> "non_interactive", action |-> "store_true",
        env |-> "", default |-> PyFalse],
       [dest |-> "verbose", action |-> "store_true",
        env |-> "", default |-> PyFalse] >>

\* faulty variant: --username bound to the variable of --password
ArgumentsUsernameEnvPasted ==
    << [dest |-> "profile", action |-> "EnvironmentDefault",
        env |-> "OKTA_AWS_PROFILE", default |-> PyNone],
       [dest |-> "okta_org", action |-> "EnvironmentDefault",
        env |-> "OKTA_ORG", default |-> PyNone],
       [dest |-> "okta_aws_app_url", action |-> "EnvironmentDefault",
        env |-> "OKTA_AWS_APP_URL", default |-> PyNone],
       [dest |-> "aws_role_to_assume", action |-> "EnvironmentDefault",
        env |-> "OKTA_AWS_ROLE_TO_ASSUME", default |-> PyNone],
       [dest |-> "username", action |-> "EnvironmentDefault",
        env |-> "OKTA_PASSWORD", default |-> PyNone],
       [dest |-> "password", action |-> "EnvironmentDefault",
        env |-> "OKTA_PASSWORD", default |-> PyNone],
       [dest |-> "sts_duration", action |-> "EnvironmentDefault",
        env |-> "OKTA_STS_DURATION", default |-> Int("3600")],
       [dest |-> "config_file", action |-> "EnvironmentDefault",
        env |-> "PYOKTA_AWS_CONFIG", default |-> Str("~/.pyokta_aws/config")],
       [dest |-> "non_interactive", action |-> "store_true",
        env |-> "", default |-> PyFalse],
       [dest |-> "verbose", action |-> "store_true",
        env |-> "", default |-> PyFalse] >>

\* faulty variant: --sts-duration registered without default=3600
ArgumentsNoStsDefault ==
    << [dest |-> "profile", action |-> "EnvironmentDefault",
        env |-> "OKTA_AWS_PROFILE", default |-> PyNone],
       [dest |-> "okta_org", action |-> "EnvironmentDefault",
        env |-> "OKTA_ORG", default |-> PyNone],
       [dest |-> "okta_aws_app_url", action |-> "EnvironmentDefault",
        env |-> "OKTA_AWS_APP_URL", default |-> PyNone],
       [dest |-> "aws_role_to_assume", action |-> "EnvironmentDefault",
        env |-> "OKTA_AWS_ROLE_TO_ASSUME", default |-> PyNone],
       [dest |-> "username", action |-> "EnvironmentDefault",
        env |-> "OKTA_USERNAME", default |-> PyNone],
       [dest |-> "password", action |-> "EnvironmentDefault",
        env |-> "OKTA_PASSWORD", default |-> PyNone],
       [dest |-> "sts_duration", action |-> "EnvironmentDefault",
        env |-> "OKTA_STS_DURATION", default |-> PyNone],
       [dest |-> "config_file", action |-> "EnvironmentDefault",
        env |-> "PYOKTA_AWS_CONFIG", default |-> Str("~/.pyokta_aws/config")],
       [dest |-> "non_interactive", action |-> "store_true",
        env |-> "", default |-> PyFalse],
       [dest |-> "verbose", action |-> "store_true",
        env |-> "", default |-> PyFalse] >>

\* the registration as written
Arguments ==
    << [dest |-> "profile", action |-> "EnvironmentDefault",
        env |-> "OKTA_AWS_PROFILE", default |-> PyNone],
       [dest |-> "okta_org", action |-> "EnvironmentDefault",
        env |-> "OKTA_ORG", default |-> PyNone],
       [dest |-> "okta_aws_app_url", action |-> "EnvironmentDefault",
        env |-> "OKTA_AWS_APP_URL", default |-> PyNone],
       [dest |-> "aws_role_to_assume", action |-> "EnvironmentDefault",
        env |-> "OKTA_AWS_ROLE_TO_ASSUME", default |-> PyNone],
       [dest |-> "username", action |-> "EnvironmentDefault",
        env |-> "OKTA_USERNAME", default |-> PyNone],
       [dest |-> "password", action |-> "EnvironmentDefault",
        env |-> "OKTA_PASSWORD", default |-> PyNone],
       [dest |-> "sts_duration", action |-> "EnvironmentDefault",
        env |-> "OKTA_STS_DURATION", default |-> Int("3600")],
       [dest |-> "config_file", action |-> "EnvironmentDefault",
        env |-> "PYOKTA_AWS_CONFIG", default |-> Str("~/.pyokta_aws/config")],
       [dest |-> "non_interactive", action |-> "store_true",
        env |-> "", default |-> PyFalse],
       [dest |-> "verbose", action |-> "store_true",
        env |-> "", default |-> PyFalse] >>

\* the record registered for a dest
ArgumentFor(d) == CHOOSE a \in {Arguments[i] : i \in DOMAIN Arguments} : a.dest = d

Dests == {Arguments[i].dest : i \in DOMAIN Arguments}

\* what a user can put on a command line: options followed by a value,
\* and switches (named by the dest of the flag)
ValuedFlags ==
    {"profile", "okta_org", "okta_aws_app_url", "aws_role_to_assume",
     "username", "password", "sts_duration", "config_file"}
SwitchFlags == {"non_interactive", "verbose"}

\* the environment variables a user can export for the tool
EnvNames ==
    {"OKTA_AWS_PROFILE", "OKTA_ORG", "OKTA_AWS_APP_URL",
     "OKTA_AWS_ROLE_TO_ASSUME", "OKTA_USERNAME", "OKTA_PASSWORD",
     "OKTA_STS_DURATION", "PYOKTA_AWS_CONFIG"}

----------------------------------------------------------------------------
(* utils.EnvironmentDefault: the default of a bound option is the          *)
(* environment variable's value when it is set, else the static default.   *)

EnvironmentDefault(env, default, e) == IF env \in DOMAIN e THEN e[env] ELSE default

\* parser.parse_args() over the registered arguments: cl maps the dest of
\* every flag present on the command line to its value, e is os.environ
ParseArgs(cl, e) ==
    [d \in Dests |->
        LET a == ArgumentFor(d) IN
        IF a.action = "store_true"
        THEN IF d \in DOMAIN cl THEN PyTrue ELSE a.default
        ELSE IF d \in DOMAIN cl THEN cl[d]
             ELSE EnvironmentDefault(a.env, a.default, e)]

----------------------------------------------------------------------------
(* Settings.__init__ *)

\* faulty variant: the receiver counted as a forbidden positional argument
AllowSelfOff == FALSE

\* @utils.no_positional(allow_self=True)
AllowSelf == TRUE

\* utils.no_positional: the wrapper raises TypeError when it receives more
\* positional arguments (the receiver included) than it allows
NoPositionalRaises(allow_self, nargs) == nargs > (IF allow_self THEN 1 ELSE 0)

\* the named parameters of __init__ and their defaults
ParamDefaults ==
    [profile |-> PyNone, username |-> PyNone, password |-> PyNone,
     okta_org |-> PyNone, okta_aws_app_url |-> PyNone,
     sts_duration |-> PyNone,
     config_file |-> Str("~/.pyokta_aws/config"),
     verbose |-> PyFalse, interactive |-> PyTrue]

Params == DOMAIN ParamDefaults

\* faulty variant: a signature without **ignored_kwargs
NoVarKeyword == FALSE

\* the signature ends with **ignored_kwargs
HasVarKeyword == TRUE

\* binding the keyword arguments to the signature raises TypeError for a
\* keyword that is no parameter, unless the signature has a ** parameter
UnexpectedKeyword(k) == ~HasVarKeyword /\ (DOMAIN k \ Params) # {}

\* the value a parameter is bound to
Bound(k, p) == IF p \in DOMAIN k THEN k[p] ELSE ParamDefaults[p]

\* the attributes the body assigns on self
InitBody(k) ==
    [f \in {"profile", "username", "password", "okta_org",
            "okta_aws_app_url", "sts_duration", "config_file", "verbose"}
        |-> Bound(k, f)]

\* Settings(*positional, **k) with n positional arguments beyond self
ConstructRaises(n, k) == NoPositionalRaises(AllowSelf, n + 1) \/ UnexpectedKeyword(k)

----------------------------------------------------------------------------
(* Settings.from_argparse *)

\* settings['interactive'] = not settings.pop('non_interactive')
SettingsMap(a) ==
    [k \in (DOMAIN a \ {"non_interactive"}) \cup {"interactive"} |->
        IF k = "interactive" THEN PyNot(a["non_interactive"]) ELSE a[k]]

\* faulty variant: settings as a copy of vars(args)
ArgsAfterCopy(a) == a

\* settings = vars(args) is the namespace's own __dict__, so what is done
\* to settings is done to args
ArgsAfter(a) == SettingsMap(a)

\* the order in which settings.items() yields the keys: the registration
\* order, without the popped key, the inserted key last
ItemsOrder ==
    LET ds == [i \in DOMAIN Arguments |-> Arguments[i].dest]
    IN  Append(SelectSeq(ds, LAMBDA d : d # "non_interactive"), "interactive")

FormatWidth == 19

RECURSIVE Dots(_)
Dots(n) == IF n = 0 THEN "" ELSE "." \o Dots(n - 1)

\* '{:.<19s}: {}'.format(x, v)
Format(x, v) ==
    (IF Len(x) < FormatWidth THEN x \o Dots(FormatWidth - Len(x)) ELSE x)
        \o ": " \o v

\* x is not 'password': an identity test.  A key with another text is
\* another object; the key 'password' is the literal's own object only
\* when the interpreter shares the two strings (lit).
IsNotPassword(x, lit) == ~(x = "password" /\ lit)

\* what the verbose branch prints, line by line
Dump(s, lit) ==
    <<"\nUsing the following settings...">> \o
    [i \in DOMAIN ItemsOrder |->
        LET x == ItemsOrder[i] IN
        Format(x, IF IsNotPassword(x, lit) THEN PyStr(s[x]) ELSE "<redacted>")]

\* faulty variant: the redaction written into the mapping itself
ConstructorKwargsRedacted(s) == [s EXCEPT !["password"] = Str("<redacted>")]

\* cls(**settings)
ConstructorKwargs(s) == s

----------------------------------------------------------------------------
(* Inputs *)

\* the functions from at most n keys of K to values of V
RECURSIVE MapsUpTo(_, _, _)
MapsUpTo(K, V, n) ==
    IF n = 0 \/ K = {} THEN {EmptyMap}
    ELSE LET k == CHOOSE x \in K : TRUE
             rest == K \ {k}
         IN  MapsUpTo(rest, V, n) \cup
             { [j \in DOMAIN m \cup {k} |-> IF j = k THEN v ELSE m[j]] :
                 m \in MapsUpTo(rest, V, n - 1), v \in V }

Merge(f, g) == [k \in DOMAIN f \cup DOMAIN g |-> IF k \in DOMAIN f THEN f[k] ELSE g[k]]

CommandLines ==
    { Merge(v, [d \in sw |-> PyTrue]) :
        v \in MapsUpTo(ValuedFlags, CliValues, MaxCliFlags),
        sw \in SUBSET SwitchFlags }

Environments == MapsUpTo(EnvNames, EnvValues, MaxEnvVars)

KwargKeys == Params \cup {"aws_role_to_assume", "extra_key"}

KeywordArguments == MapsUpTo(KwargKeys, KwValues, MaxKwargs)

----------------------------------------------------------------------------
(* The state machine *)

Init ==
    /\ pc = "start"
    /\ environ = EmptyMap
    /\ argv = EmptyMap
    /\ args = EmptyMap
    /\ interned = TRUE
    /\ out = << >>
    /\ inst = NoInstance
    /\ err = "none"
    /\ npos = 0
    /\ kw = EmptyMap
    /\ calls = 0

\* the tool is started with a command line and an environment; the
\* options are registered and the command line is parsed
Parse ==
    /\ pc = "start"
    /\ \E cl \in CommandLines, e \in Environments :
         /\ argv' = cl
         /\ environ' = e
         /\ args' = ParseArgs(cl, e)
    /\ pc' = "parsed"
    /\ UNCHANGED <<interned, out, inst, err, npos, kw, calls>>

\* Settings.from_argparse(args) on parsed arguments that still hold
\* non_interactive
FromArgparse ==
    /\ pc \in {"parsed", "built", "rejected", "failed"}
    /\ DOMAIN args # {}
    /\ calls < MaxCalls
    /\ "non_interactive" \in DOMAIN args
    /\ calls' = calls + 1
    /\ \E lit \in BOOLEAN :
         LET s == SettingsMap(args)
             k == ConstructorKwargs(s)
         IN  /\ interned' = lit
             /\ args' = ArgsAfter(args)
             /\ out' = IF Truthy(s["verbose"]) THEN out \o Dump(s, lit) ELSE out
             /\ npos' = 0
             /\ kw' = k
             /\ IF ConstructRaises(0, k)
                THEN /\ pc' = "rejected"
                     /\ err' = "TypeError"
                     /\ inst' = NoInstance
                ELSE /\ pc' = "built"
                     /\ err' = "none"
                     /\ inst' = InitBody(k)
    /\ UNCHANGED <<environ, argv>>

\* Settings.from_argparse(args) on arguments it has already consumed:
\* settings.pop('non_interactive') raises KeyError
FromArgparseAgain ==
    /\ pc \in {"parsed", "built", "rejected", "failed"}
    /\ DOMAIN args # {}
    /\ calls < MaxCalls
    /\ "non_interactive" \notin DOMAIN args
    /\ calls' = calls + 1
    /\ pc' = "failed"
    /\ err' = "KeyError"
    /\ inst' = NoInstance
    /\ UNCHANGED <<environ, argv, args, interned, out, npos, kw>>

\* Settings(*positional, **k) called directly
Construct ==
    /\ pc = "start"
    /\ \E n \in 0..MaxPositional, k \in KeywordArguments :
         /\ npos' = n
         /\ kw' = k
         /\ IF ConstructRaises(n, k)
            THEN /\ pc' = "rejected"
                 /\ err' = "TypeError"
                 /\ inst' = NoInstance
            ELSE /\ pc' = "constructed"
                 /\ err' = "none"
                 /\ inst' = InitBody(k)
    /\ UNCHANGED <<environ, argv, args, interned, out, calls>>

Next == Parse \/ FromArgparse \/ FromArgparseAgain \/ Construct

Spec == Init /\ [][Next]_vars

----------------------------------------------------------------------------
(* The properties *)

\* the options bound to an environment variable, and the variable of each
BoundOptions ==
    {"profile", "okta_org", "okta_aws_app_url", "aws_role_to_assume",
     "username", "password", "sts_duration", "config_file"}

EnvVarOf ==
    [profile |-> "OKTA_AWS_PROFILE", okta_org |-> "OKTA_ORG",
     okta_aws_app_url |-> "OKTA_AWS_APP_URL",
     aws_role_to_assume |-> "OKTA_AWS_ROLE_TO_ASSUME",
     username |-> "OKTA_USERNAME", password |-> "OKTA_PASSWORD",
     sts_duration |-> "OKTA_STS_DURATION", config_file |-> "PYOKTA_AWS_CONFIG"]

\* the command line has been parsed (args holds the resolved options)
Resolved == DOMAIN args # {}

\* the last step was a constructor call (direct or made by from_argparse)
ConstructorCalled == pc \in {"constructed", "rejected", "built"}

\* C1: for every bound option, a value given on the command line is the
\* resolved value, whatever the environment variable and the static
\* default are.
C1_CliWins ==
    Resolved =>
        \A o \in BoundOptions : o \in DOMAIN argv => args[o] = argv[o]

\* a parse where an option is given on the command line while its
\* environment variable is set too, and one where the option has a default
C1_Witness ==
    /\ pc = "parsed"
    /\ "sts_duration" \in DOMAIN argv
    /\ "OKTA_STS_DURATION" \in DOMAIN environ
    /\ args["sts_duration"] = Str("from-cli")

\* C2: for every bound option, with no command-line value and the bound
\* environment variable set, the resolved value is the environment value,
\* not the static default.
C2_EnvOverDefault ==
    Resolved =>
        \A o \in BoundOptions :
            (o \notin DOMAIN argv /\ EnvVarOf[o] \in DOMAIN environ)
                => args[o] = environ[EnvVarOf[o]]

C2_Witness ==
    /\ pc = "parsed"
    /\ "config_file" \notin DOMAIN argv
    /\ "PYOKTA_AWS_CONFIG" \in DOMAIN environ
    /\ "username" \notin DOMAIN argv
    /\ "OKTA_USERNAME" \in DOMAIN environ
    /\ args["config_file"] = Str("from-env")
    /\ args["username"] = Str("from-env")

\* C3: when verbose is true and the password is not empty, the dump that
\* from_argparse prints has the line of the password key showing
\* <redacted>, and no line showing the password.
C3_PasswordRedacted ==
    (pc = "built" /\ Truthy(args["verbose"]) /\ args["password"] # PyNone) =>
        /\ \E i \in DOMAIN out : out[i] = "password...........: <redacted>"
        /\ \A i \in DOMAIN out :
             out[i] # "password...........: " \o PyStr(args["password"])

\* C4: the Settings that from_argparse returns has an interactive field
\* equal to the negation of the resolved non_interactive flag.
C4_InteractiveField ==
    pc = "built" =>
        /\ "interactive" \in DOMAIN inst
        /\ inst["interactive"] =
             (IF "non_interactive" \in DOMAIN argv THEN PyFalse ELSE PyTrue)

\* C5: a construction with one or more positional arguments beyond the
\* receiver fails with TypeError and yields no instance; a construction
\* with keyword arguments only never raises that error.
C5_NoPositional ==
    ConstructorCalled =>
        /\ npos >= 1 => (pc = "rejected" /\ err = "TypeError" /\ inst = NoInstance)
        /\ npos = 0 => (pc # "rejected" /\ err # "TypeError" /\ inst # NoInstance)

C5_Witness ==
    /\ pc = "rejected"
    /\ npos = 1
    /\ "profile" \in DOMAIN kw
    /\ inst = NoInstance

\* C6: with neither a command-line value nor the environment variable,
\* sts_duration resolves to 3600 and config_file to ~/.pyokta_aws/config,
\* every bound option without a static default resolves to unset, and the
\* Settings built from the resolution carries the two defaults.
C6_StaticDefaults ==
    LET untouched(o) == o \notin DOMAIN argv /\ EnvVarOf[o] \notin DOMAIN environ
    IN  Resolved =>
          /\ untouched("sts_duration") => args["sts_duration"] = Int("3600")
          /\ untouched("config_file") =>
                args["config_file"] = Str("~/.pyokta_aws/config")
          /\ \A o \in BoundOptions \ {"sts_duration", "config_file"} :
                untouched(o) => args[o] = PyNone
          /\ (pc = "built" /\ untouched("sts_duration")) =>
                inst["sts_duration"] = Int("3600")
          /\ (pc = "built" /\ untouched("config_file")) =>
                inst["config_file"] = Str("~/.pyokta_aws/config")

C6_Witness ==
    /\ pc = "built"
    /\ DOMAIN environ = {}
    /\ DOMAIN argv = {}
    /\ inst["sts_duration"] = Int("3600")
    /\ inst["config_file"] = Str("~/.pyokta_aws/config")
    /\ args["password"] = PyNone

\* C7: keyword arguments outside the recognized fields never make the
\* construction fail; they are discarded, and the recognized fields are
\* what they would be had the extra keys not been passed.
C7_ExtraKeywordsIgnored ==
    LET known == [p \in DOMAIN kw \cap Params |-> kw[p]]
    IN  (ConstructorCalled /\ npos = 0 /\ (DOMAIN kw \ Params) # {}) =>
          /\ pc \in {"constructed", "built"}
          /\ err = "none"
          /\ inst = InitBody(known)
          /\ DOMAIN inst \cap (DOMAIN kw \ Params) = {}

C7_Witness ==
    /\ pc = "constructed"
    /\ DOMAIN kw = {"extra_key", "username"}
    /\ inst["username"] = Str("kw")

\* C8: a Settings constructed with no keyword arguments has profile,
\* username, password, okta_org, okta_aws_app_url and sts_duration unset,
\* config_file = ~/.pyokta_aws/config, verbose false and interactive true.
C8_DefaultInstance ==
    (pc = "constructed" /\ npos = 0 /\ DOMAIN kw = {}) =>
        inst = [profile |-> PyNone, username |-> PyNone, password |-> PyNone,
                okta_org |-> PyNone, okta_aws_app_url |-> PyNone,
                sts_duration |-> PyNone,
                config_file |-> Str("~/.pyokta_aws/config"),
                verbose |-> PyFalse, interactive |-> PyTrue]

\* C9 as stated: a from_argparse call that returns leaves the parsed
\* arguments holding exactly the keys and values they held before.
C9_ArgsUntouched ==
    [][(calls' = calls + 1 /\ pc' = "built") => args' = args]_vars

\* C9 amended: a from_argparse call on parsed arguments that hold
\* non_interactive removes that key from them and adds interactive, the
\* negation of the removed value, every other key keeping its value; a
\* call on arguments without non_interactive fails with KeyError and
\* changes nothing in them.
C9_ArgsConsumed ==
    [][calls' = calls + 1 =>
         IF "non_interactive" \in DOMAIN args
         THEN /\ DOMAIN args' = (DOMAIN args \ {"non_interactive"}) \cup {"interactive"}
              /\ args'["interactive"] = PyNot(args["non_interactive"])
              /\ \A k \in DOMAIN args \ {"non_interactive", "interactive"} :
                    args'[k] = args[k]
         ELSE /\ err' = "KeyError"
              /\ inst' = NoInstance
              /\ args' = args]_vars

\* a second call on the same parsed arguments has failed
C9_Witness ==
    /\ calls = 2
    /\ pc = "failed"
    /\ err = "KeyError"
    /\ "interactive" \in DOMAIN args
    /\ "non_interactive" \notin DOMAIN args

\* C10: each of profile, username, password, okta_org, okta_aws_app_url,
\* sts_duration, config_file and verbose of the returned Settings is the
\* value of the same key in the mapping given to from_argparse; the stored
\* password is the real one, whether or not verbose is set.
C10_FieldsVerbatim ==
    [][(calls' = calls + 1 /\ pc' = "built") =>
         \A f \in {"profile", "username", "password", "okta_org",
                   "okta_aws_app_url", "sts_duration", "config_file",
                   "verbose"} :
            f \in DOMAIN inst' /\ inst'[f] = args[f]]_vars

C10_Witness ==
    /\ pc = "built"
    /\ Truthy(args["verbose"])
    /\ inst["password"] = Str("from-cli")
    /\ inst["sts_duration"] = Str("from-env")
    /\ \E i \in DOMAIN out : out[i] = "password...........: <redacted>"

====
